---- MODULE Spec2Model ----
(***************************************************************************)
(* A model of the four TVBox command-line tools:                           *)
(*   bin/parse_api.py        Config Fetcher    (specification SpecCfg)     *)
(*   parse_sites.py          Site Enumerator   (SpecEnum) and              *)
(*                           sanitize_filename (SpecSan)                   *)
(*   bin/fetch_all_pages.py  Page Aggregator   (SpecAgg, SpecRerun)        *)
(*   bin/fetch_play_urls.py  Play-URL Backfill (SpecBackfill, SpecMerge)   *)
(* Each tool is a single-threaded script; one specification describes the  *)
(* runs of one tool, and the variables of the other tools stay idle.       *)
(*                                                                         *)
(* JSON objects are functions whose domain is the set of keys present, so  *)
(* "key absent" and "key present with an empty value" are different.       *)
(* Typing assumptions: `pagecount` is an integer, `list` is an array, a    *)
(* page body that parses as JSON is an object.                             *)
(***************************************************************************)
EXTENDS Integers, Sequences, FiniteSets, TLC

VARIABLES
    \* ---- Page Aggregator (bin/fetch_all_pages.py)
    agg_pc,           \* position of the run: start, loop, done, failed, exit
    agg_file,         \* sites/<site_file> on disk: [state, data]
    api_url,          \* fetch_all_pages' api_url (a URL record)
    first_page_data,  \* the document read from the file
    all_videos,       \* the accumulator
    page,             \* the loop variable of `for page in range(2, pagecount + 1)`
    agg_log,          \* page requests and sleeps of the run, in order
    agg_resp,         \* what fetch_page returned for each request, in order
    complete_data,    \* fetch_all_pages' return value: [some, val]
    agg_exit,         \* main's exit status, -1 while running
    agg_runs,         \* the runs before this one: [file read, url, responses]
    \* ---- sanitize_filename (parse_sites.py)
    san_pc,           \* start, done
    san_name,         \* the argument: a string, as a sequence of characters
    san_out,          \* the returned string
    \* ---- Play-URL Backfill (bin/fetch_play_urls.py)
    bf_pc,            \* start, loop, returned
    bf_file,          \* sites/<site_file> on disk: [state, data]
    bf_prev,          \* that file as it was when the current run started
    bf_prev_written,  \* the previous run wrote the file
    upstream,         \* the detail response of each record id asked so far
    bf_api_url,       \* update_site_with_play_urls' api_url
    site_data,        \* the document read from the file
    video_list,       \* site_data's list, updated in place
    bf_i,             \* the loop variable i of enumerate(video_list, 1)
    bf_success_count,
    bf_fail_count,
    bf_log,           \* detail requests and sleeps of the current run, in order
    bf_run,           \* number of the current run, from 1
    bf_writes,        \* writes of the site file in the current run
    bf_ret,           \* the returned tuple, <<-1, -1, -1>> while running
    \* ---- Config Fetcher (bin/parse_api.py)
    cfg_pc,           \* start, fetch, parsed, exit
    cfg_keyfile,      \* api-key.txt: [state, lines]
    cfg_file,         \* tvbox_config.json on disk: [state, data]
    cfg_old,          \* that file as it was when the run started
    cfg_url,          \* main's api_url
    cfg_resp,         \* the response to the request
    config,           \* parse_tvbox_api's return value: [some, val]
    cfg_saved,        \* save_config: none (not called), ok, fail
    cfg_exit,         \* the exit status, -1 while running
    \* ---- Site Enumerator (parse_sites.py)
    en_pc,            \* start, loop, returned, exit
    en_config,        \* tvbox_config.json on disk: [state, data]
    sites,            \* parse_all_sites' sites
    en_i,             \* the loop variable i of enumerate(sites, 1)
    en_success_count,
    en_fail_count,
    en_log,           \* entries visited, requests and sleeps, in order
    en_files,         \* the files written under sites/, by name
    en_ret,           \* the returned tuple, <<-1, -1, -1>> while running
    en_exit           \* the exit status, -1 while running

agg_vars == <<agg_pc, agg_file, api_url, first_page_data, all_videos, page,
              agg_log, agg_resp, complete_data, agg_exit, agg_runs>>

san_vars == <<san_pc, san_name, san_out>>

bf_vars == <<bf_pc, bf_file, bf_prev, bf_prev_written, upstream, bf_api_url,
             site_data, video_list, bf_i, bf_success_count, bf_fail_count,
             bf_log, bf_run, bf_writes, bf_ret>>

cfg_vars == <<cfg_pc, cfg_keyfile, cfg_file, cfg_old, cfg_url, cfg_resp, config,
              cfg_saved, cfg_exit>>

en_vars == <<en_pc, en_config, sites, en_i, en_success_count, en_fail_count,
             en_log, en_files, en_ret, en_exit>>

vars == <<agg_vars, san_vars, bf_vars, cfg_vars, en_vars>>

\* The variables of the other tools, which a tool's steps leave alone.
NotAgg == <<san_vars, bf_vars, cfg_vars, en_vars>>
NotSan == <<agg_vars, bf_vars, cfg_vars, en_vars>>
NotBf == <<agg_vars, san_vars, cfg_vars, en_vars>>
NotCfg == <<agg_vars, san_vars, bf_vars, en_vars>>
NotEn == <<agg_vars, san_vars, bf_vars, cfg_vars>>

----------------------------------------------------------------------------
(* Bounds *)
MaxPages == 3      \* largest pagecount of a first page
MaxLen == 2        \* longest `list` of one page
MaxNameLen == 3    \* longest site name enumerated character by character
MaxVideos == 2     \* longest `list` of a site file handed to the backfill
MaxRuns == 2       \* runs of a tool over the same file
MaxLines == 2      \* lines of api-key.txt
MaxSites == 2      \* longest `sites` list of the root config

----------------------------------------------------------------------------
(* JSON helpers *)

\* dict.get(key, default)
Get(d, k, default) == IF k \in DOMAIN d THEN d[k] ELSE default

\* The empty dict {} (falsy in Python).
EmptyDoc == [k \in {} |-> 0]

\* The dicts holding key k with a value of S, plus the dict without k.
Opt(k, S) == {EmptyDoc} \cup {(k :> v) : v \in S}

\* Arrays of record ids, at most n long.
SeqsUpTo(S, n) == UNION {[1..m -> S] : m \in 0..n}

Recs == {1, 2}
Lists == SeqsUpTo(Recs, MaxLen)

\* dict.copy() followed by d[k] = v
Put(d, k, v) == [x \in (DOMAIN d) \cup {k} |-> IF x = k THEN v ELSE d[x]]

\* Optional values: Python's None and a returned value.
None == [some |-> FALSE, val |-> EmptyDoc]
Some(v) == [some |-> TRUE, val |-> v]

----------------------------------------------------------------------------
(* A tool that is not running *)

AggIdle ==
    /\ agg_pc = "idle"
    /\ agg_file = [state |-> "missing", data |-> EmptyDoc]
    /\ api_url = [kind |-> "none", base |-> "", query |-> FALSE]
    /\ first_page_data = EmptyDoc
    /\ all_videos = <<>>
    /\ page = 0
    /\ agg_log = <<>>
    /\ agg_resp = <<>>
    /\ complete_data = None
    /\ agg_exit = -1
    /\ agg_runs = <<>>

SanIdle == san_pc = "idle" /\ san_name = <<>> /\ san_out = <<>>

BfIdle ==
    /\ bf_pc = "idle"
    /\ bf_file = [state |-> "missing", data |-> EmptyDoc]
    /\ bf_prev = [state |-> "missing", data |-> EmptyDoc]
    /\ bf_prev_written = FALSE
    /\ upstream = EmptyDoc
    /\ bf_api_url = [kind |-> "none", base |-> "", query |-> FALSE]
    /\ site_data = EmptyDoc
    /\ video_list = <<>>
    /\ bf_i = 0
    /\ bf_success_count = 0
    /\ bf_fail_count = 0
    /\ bf_log = <<>>
    /\ bf_run = 0
    /\ bf_writes = 0
    /\ bf_ret = <<-1, -1, -1>>

CfgIdle ==
    /\ cfg_pc = "idle"
    /\ cfg_keyfile = [state |-> "missing", lines |-> <<>>]
    /\ cfg_file = [state |-> "missing", data |-> [t |-> "null", obj |-> EmptyDoc, arr |-> <<>>]]
    /\ cfg_old = [state |-> "missing", data |-> [t |-> "null", obj |-> EmptyDoc, arr |-> <<>>]]
    /\ cfg_url = ""
    /\ cfg_resp = [kind |-> "none", body |-> [t |-> "null", obj |-> EmptyDoc, arr |-> <<>>]]
    /\ config = [some |-> FALSE, val |-> [t |-> "null", obj |-> EmptyDoc, arr |-> <<>>]]
    /\ cfg_saved = "none"
    /\ cfg_exit = -1

EnIdle ==
    /\ en_pc = "idle"
    /\ en_config = [state |-> "missing", data |-> EmptyDoc]
    /\ sites = <<>>
    /\ en_i = 0
    /\ en_success_count = 0
    /\ en_fail_count = 0
    /\ en_log = <<>>
    /\ en_files = {}
    /\ en_ret = <<-1, -1, -1>>
    /\ en_exit = -1

----------------------------------------------------------------------------
(* sanitize_filename *)

\* invalid_chars, in the order of the list.
InvalidChars == <<"/", "\\", ":", "*", "?", "\"", "<", ">", "|">>
InvalidSet == {InvalidChars[i] : i \in DOMAIN InvalidChars}

\* Characters str.strip() removes (those of them the names are built from).
Whitespace == {" ", "\t"}

\* The characters names are built from.
Chars == InvalidSet \cup Whitespace \cup {".", "_", "A", "B", "C"}

\* 'unknown'
Placeholder == <<"u", "n", "k", "n", "o", "w", "n">>

\* name.replace(char, '_')
Replace_drop(name, char) == SelectSeq(name, LAMBDA c : c # char)
Replace(name, char) == [i \in DOMAIN name |-> IF name[i] = char THEN "_" ELSE name[i]]

\* `for char in invalid_chars: name = name.replace(char, '_')`, from the
\* n-th character of the list on.
RECURSIVE ReplaceFrom(_, _)
ReplaceFrom(name, n) ==
    IF n > Len(InvalidChars) THEN name
    ELSE ReplaceFrom(Replace(name, InvalidChars[n]), n + 1)

\* str.lstrip / str.rstrip / str.strip over a set of characters.
RECURSIVE LStrip(_, _)
LStrip(s, cs) ==
    IF s # <<>> /\ Head(s) \in cs THEN LStrip(Tail(s), cs) ELSE s
RECURSIVE RStrip(_, _)
RStrip(s, cs) ==
    IF s # <<>> /\ s[Len(s)] \in cs THEN RStrip(SubSeq(s, 1, Len(s) - 1), cs) ELSE s
Strip(s, cs) == RStrip(LStrip(s, cs), cs)

\* name.strip().strip('.')
StripEnds(name) == Strip(Strip(name, Whitespace), {"."})

sanitize_filename(name) ==
    LET stripped == StripEnds(ReplaceFrom(name, 1))
    IN IF stripped = <<>> THEN Placeholder ELSE stripped

\* The names sanitize_filename is applied to: every short string over
\* Chars, and the longer names of the examples.
Names ==
    SeqsUpTo(Chars, MaxNameLen)
    \cup {<<"A", "/", "B", ":", "C">>, InvalidChars, <<" ", ".", " ", "A", ".", " ">>}

SanInit ==
    /\ AggIdle /\ BfIdle /\ CfgIdle /\ EnIdle
    /\ san_pc = "start" /\ san_name \in Names /\ san_out = <<>>

\* One call of sanitize_filename.
SanCall ==
    /\ san_pc = "start"
    /\ san_out' = sanitize_filename(san_name)
    /\ san_pc' = "done"
    /\ UNCHANGED <<san_name, NotSan>>

SanNext == SanCall

SpecSan == SanInit /\ [][SanNext]_vars

----------------------------------------------------------------------------
(* Page Aggregator *)

\* A first-page document: pagecount, page, total and list may each be absent.
FirstPages ==
    {pc @@ ex @@ ls :
        pc \in Opt("pagecount", 0..MaxPages),
        ex \in {EmptyDoc, [page |-> 2, total |-> 9]},
        ls \in Opt("list", Lists)}

\* The site file: missing, unreadable as JSON, or holding a first page.
AggFiles ==
    {[state |-> "missing", data |-> EmptyDoc], [state |-> "bad", data |-> EmptyDoc]}
    \cup {[state |-> "ok", data |-> d] : d \in FirstPages}

\* Endpoint URLs: with and without a query string.
Urls == {[base |-> "u", query |-> q] : q \in BOOLEAN}

\* get_site_api_url's results: None (no site of that name, or the config is
\* unreadable), '' (the site has no api key, or an empty one), or a URL.
NoUrl == [kind |-> "none", base |-> "", query |-> FALSE]
EmptyUrl == [kind |-> "str", base |-> "", query |-> FALSE]
Url(u) == [kind |-> "str", base |-> u.base, query |-> u.query]
ApiUrls == {NoUrl, EmptyUrl} \cup {Url(u) : u \in Urls}

\* `not api_url`
Falsy(u) == u.kind = "none" \/ u.base = ""

\* fetch_page's URL: "&pg=N" when the URL has a query string, else "?pg=N".
PageUrl(u, p) == [base |-> u.base, sep |-> IF u.query THEN "&" ELSE "?", pg |-> p]

\* What fetch_page returns: None on a request error, a non-2xx status or a
\* body that is not JSON; otherwise the parsed object.
PageBodies == {EmptyDoc, [code |-> 1]} \cup {[list |-> ls] : ls \in Lists}
PageResults == {None} \cup {Some(b) : b \in PageBodies}

\* `if page_data:` - None and {} are falsy.
Truthy(r) == r.some /\ DOMAIN r.val # {}

\* `if pagecount <= 1:` with pagecount = first_page_data.get('pagecount', 1)
OnlyOnePage_lt(d) == Get(d, "pagecount", 1) < 1
OnlyOnePage(d) == Get(d, "pagecount", 1) <= 1

\* `for page in range(2, pagecount + 1)`: is page p still in the range?
InRange_short(p, pagecount) == p < pagecount
InRange(p, pagecount) == p <= pagecount

\* `if page < pagecount:` before time.sleep(delay)
SleepAfter_always(p, pagecount) == p <= pagecount
SleepAfter(p, pagecount) == p < pagecount

\* The loop body's update of all_videos: extend by page_data.get('list', [])
\* when page_data is truthy and that list is non-empty.
RECURSIVE Without(_, _)
Without(s, seen) ==
    IF s = <<>> THEN <<>>
    ELSE IF \E i \in DOMAIN seen : seen[i] = Head(s)
         THEN Without(Tail(s), seen)
         ELSE <<Head(s)>> \o Without(Tail(s), seen)
Extend_dedup(acc, r) ==
    IF Truthy(r) THEN acc \o Without(Get(r.val, "list", <<>>), acc) ELSE acc
Extend(acc, r) ==
    IF Truthy(r) /\ Get(r.val, "list", <<>>) # <<>>
    THEN acc \o Get(r.val, "list", <<>>)
    ELSE acc

\* complete_data: a copy of the first page with list, page and total set.
CompleteData_onepage(first, videos) ==
    Put(Put(Put(Put(first, "list", videos), "page", 1), "total", Len(videos)),
        "pagecount", 1)
CompleteData(first, videos) ==
    Put(Put(Put(first, "list", videos), "page", 1), "total", Len(videos))

AggInit ==
    /\ SanIdle /\ BfIdle /\ CfgIdle /\ EnIdle
    /\ agg_pc = "start"
    /\ agg_file \in AggFiles
    /\ api_url = NoUrl
    /\ first_page_data = EmptyDoc
    /\ all_videos = <<>>
    /\ page = 0
    /\ agg_log = <<>>
    /\ agg_resp = <<>>
    /\ complete_data = None
    /\ agg_exit = -1
    /\ agg_runs = <<>>

\* fetch_all_pages up to the loop: the early returns, the fast path, and the
\* copy of the first page's list.  u is what get_site_api_url finds in the
\* root config for this site.
AggStart(u) ==
    /\ agg_pc = "start"
    /\ UNCHANGED <<agg_file, agg_log, agg_resp, agg_exit, agg_runs, NotAgg>>
    /\ IF agg_file.state # "ok"
       THEN /\ agg_pc' = "failed"
            /\ complete_data' = None
            /\ UNCHANGED <<api_url, first_page_data, all_videos, page>>
       ELSE /\ first_page_data' = agg_file.data
            /\ api_url' = u
            /\ IF Falsy(u)
               THEN /\ agg_pc' = "failed"
                    /\ complete_data' = None
                    /\ UNCHANGED <<all_videos, page>>
               ELSE IF OnlyOnePage(agg_file.data)
               THEN /\ agg_pc' = "done"
                    /\ complete_data' = Some(agg_file.data)
                    /\ UNCHANGED <<all_videos, page>>
               ELSE /\ agg_pc' = "loop"
                    /\ all_videos' = Get(agg_file.data, "list", <<>>)
                    /\ page' = 2
                    /\ UNCHANGED complete_data

\* One iteration of the loop: the request, the extend, the sleep.
AggFetch(r) ==
    /\ agg_pc = "loop"
    /\ InRange(page, first_page_data["pagecount"])
    /\ agg_resp' = Append(agg_resp, r)
    /\ all_videos' = Extend(all_videos, r)
    /\ agg_log' = agg_log
                  \o <<[op |-> "get", url |-> PageUrl(api_url, page)]>>
                  \o (IF SleepAfter(page, first_page_data["pagecount"])
                      THEN <<[op |-> "sleep", url |-> PageUrl(api_url, page)]>>
                      ELSE <<>>)
    /\ page' = page + 1
    /\ UNCHANGED <<agg_pc, agg_file, api_url, first_page_data, complete_data,
                   agg_exit, agg_runs, NotAgg>>

\* After the loop: build complete_data and return it.
AggFinish ==
    /\ agg_pc = "loop"
    /\ ~InRange(page, first_page_data["pagecount"])
    /\ complete_data' = Some(CompleteData(first_page_data, all_videos))
    /\ agg_pc' = "done"
    /\ UNCHANGED <<agg_file, api_url, first_page_data, all_videos, page,
                   agg_log, agg_resp, agg_exit, agg_runs, NotAgg>>

\* main after fetch_all_pages: `if complete_data:` save and exit 0, exit 1
\* when the save fails or there is nothing to save.
AggMain(saved) ==
    /\ agg_pc \in {"done", "failed"}
    /\ agg_pc' = "exit"
    /\ IF Truthy(complete_data)
       THEN IF saved
            THEN /\ agg_file' = [state |-> "ok", data |-> complete_data.val]
                 /\ agg_exit' = 0
            ELSE /\ agg_exit' = 1
                 /\ UNCHANGED agg_file
       ELSE /\ agg_exit' = 1
            /\ UNCHANGED agg_file
    /\ UNCHANGED <<api_url, first_page_data, all_videos, page, agg_log,
                   agg_resp, complete_data, agg_runs, NotAgg>>

AggNext ==
    \/ \E u \in ApiUrls : AggStart(u)
    \/ \E r \in PageResults : AggFetch(r)
    \/ AggFinish
    \/ \E saved \in BOOLEAN : AggMain(saved)

SpecAgg == AggInit /\ [][AggNext]_vars

\* The tool is run again over the file a successful run (exit status 0)
\* has written.
AggRerun ==
    /\ agg_pc = "exit"
    /\ agg_exit = 0
    /\ Len(agg_runs) + 1 < MaxRuns
    /\ agg_runs' = Append(agg_runs, [file |-> first_page_data, url |-> api_url,
                                      resp |-> agg_resp])
    /\ agg_pc' = "start"
    /\ api_url' = NoUrl
    /\ first_page_data' = EmptyDoc
    /\ all_videos' = <<>>
    /\ page' = 0
    /\ agg_log' = <<>>
    /\ agg_resp' = <<>>
    /\ complete_data' = None
    /\ agg_exit' = -1
    /\ UNCHANGED <<agg_file, NotAgg>>

\* A fixed upstream: fetch_page returns for the current page what it
\* returned for that page in the first run.
SameUpstream(r) ==
    agg_runs # <<>> /\ page - 1 \in DOMAIN agg_runs[1].resp
    => r = agg_runs[1].resp[page - 1]

\* An unchanged root config: get_site_api_url finds the URL it found in the
\* first run.
SameConfig(u) == agg_runs # <<>> => u = agg_runs[1].url

\* What fetch_page returns in SpecRerun: None, an empty body, or a page
\* with a list.
RerunResults ==
    {None, Some(EmptyDoc), Some([list |-> <<1>>]), Some([list |-> <<2, 1>>])}

RerunNext ==
    \/ \E u \in ApiUrls : SameConfig(u) /\ AggStart(u)
    \/ \E r \in RerunResults : SameUpstream(r) /\ AggFetch(r)
    \/ AggFinish
    \/ \E saved \in BOOLEAN : AggMain(saved)
    \/ AggRerun

SpecRerun == AggInit /\ [][RerunNext]_vars

----------------------------------------------------------------------------
(* Play-URL Backfill *)

\* An entry of `list`: a record (a dict) or something that is no dict.
Dict(d) == [isdict |-> TRUE, d |-> d]
NonDict == [isdict |-> FALSE, d |-> EmptyDoc]

\* The entries of the site files of SpecBackfill: vod_id absent, 0 or an id,
\* vod_play_url absent, empty or populated.
Videos ==
    {NonDict} \cup
    {Dict(id @@ url) : id \in Opt("vod_id", {0, 1, 2}),
                       url \in Opt("vod_play_url", {"", "x"})}

\* The site file: missing, unreadable, without a list, or with one.
BfFiles ==
    {[state |-> "missing", data |-> EmptyDoc], [state |-> "bad", data |-> EmptyDoc],
     [state |-> "ok", data |-> EmptyDoc]}
    \cup {[state |-> "ok", data |-> [list |-> ls]] : ls \in SeqsUpTo(Videos, MaxVideos)}

\* The details an upstream of SpecBackfill returns as list[0].
Details ==
    {EmptyDoc, [vod_play_url |-> "y"], [vod_play_url |-> ""], [vod_play_from |-> "f"]}

\* The six fields the merge writes.
CopyIfPresent == {"vod_play_from", "vod_play_url", "vod_actor", "vod_director", "vod_score"}
Whitelist == CopyIfPresent \cup {"vod_content"}

\* The records and details of SpecMerge: every whitelisted field absent or
\* populated on the record (vod_play_url absent or empty, so that the
\* record is fetched), and absent, empty or populated in the detail.
WideVideos ==
    {Dict([vod_id |-> 1] @@ a @@ b @@ c @@ d @@ e @@ f) :
        a \in Opt("vod_play_from", {"x"}), b \in Opt("vod_play_url", {""}),
        c \in Opt("vod_content", {"x"}), d \in Opt("vod_actor", {"x"}),
        e \in Opt("vod_director", {"x"}), f \in Opt("vod_score", {"x"})}
WideDetails ==
    {a @@ b @@ c @@ d @@ e @@ f :
        a \in Opt("vod_play_from", {"", "y"}), b \in Opt("vod_play_url", {"", "y"}),
        c \in Opt("vod_content", {"", "y"}), d \in Opt("vod_actor", {"", "y"}),
        e \in Opt("vod_director", {"", "y"}), f \in Opt("vod_score", {"", "y"})}

\* The responses to a detail request: a failure (request error, non-2xx,
\* body not JSON), or a JSON object without `list`, with an empty `list`,
\* or with a `list` whose first element is the detail.
DetailResponses(details) ==
    {None, Some(EmptyDoc), Some([list |-> <<>>])}
    \cup {Some([list |-> <<d>>]) : d \in details}

\* fetch_vod_detail's return value: data['list'][0] when the body is a
\* dict with a non-empty list, else None.
fetch_vod_detail(resp) ==
    IF resp.some /\ Get(resp.val, "list", <<>>) # <<>>
    THEN Some(resp.val["list"][1])
    ELSE None

\* fetch_vod_detail's URL: "&ac=detail&ids=" after a query string, else "?".
DetailUrl(u, id) == [base |-> u.base, sep |-> IF u.query THEN "&" ELSE "?", ids |-> id]

\* `not vod_id` with vod_id = video.get('vod_id')
NoVodId(video) == Get(video, "vod_id", 0) = 0

\* `'vod_play_url' in video and video.get('vod_play_url')`
HasPlayUrl_from(video) == Get(video, "vod_play_from", "") # ""
HasPlayUrl(video) == Get(video, "vod_play_url", "") # ""

\* The record after the six `if ... in detail:` assignments.
MergeDetail(video, detail) ==
    LET copied == {k \in CopyIfPresent : k \in DOMAIN detail}
                  \cup (IF Get(detail, "vod_content", "") # ""
                        THEN {"vod_content"} ELSE {})
    IN [k \in DOMAIN video \cup copied |-> IF k \in copied THEN detail[k] ELSE video[k]]

\* `if i < len(video_list):` before time.sleep(delay)
BfSleepAfter(i, n) == i < n

\* `for i, video in enumerate(video_list, 1):` has run out of entries.
LoopDone_early(i, n) == i >= n
LoopDone(i, n) == i > n

BfInit ==
    /\ AggIdle /\ SanIdle /\ CfgIdle /\ EnIdle
    /\ bf_pc = "start"
    /\ bf_file \in BfFiles
    /\ bf_prev = bf_file
    /\ bf_prev_written = FALSE
    /\ upstream = EmptyDoc
    /\ bf_api_url = NoUrl
    /\ site_data = EmptyDoc
    /\ video_list = <<>>
    /\ bf_i = 0
    /\ bf_success_count = 0
    /\ bf_fail_count = 0
    /\ bf_log = <<>>
    /\ bf_run = 1
    /\ bf_writes = 0
    /\ bf_ret = <<-1, -1, -1>>

\* SpecMerge starts from a file holding one record.
MergeInit ==
    /\ AggIdle /\ SanIdle /\ CfgIdle /\ EnIdle
    /\ bf_pc = "start"
    /\ bf_file \in {[state |-> "ok", data |-> [list |-> <<v>>]] : v \in WideVideos}
    /\ bf_prev = bf_file
    /\ bf_prev_written = FALSE
    /\ upstream = EmptyDoc
    /\ bf_api_url = NoUrl
    /\ site_data = EmptyDoc
    /\ video_list = <<>>
    /\ bf_i = 0
    /\ bf_success_count = 0
    /\ bf_fail_count = 0
    /\ bf_log = <<>>
    /\ bf_run = 1
    /\ bf_writes = 0
    /\ bf_ret = <<-1, -1, -1>>

\* update_site_with_play_urls up to the loop, with its early returns.
BfStart(u) ==
    /\ bf_pc = "start"
    /\ UNCHANGED <<bf_file, bf_prev, bf_prev_written, upstream, bf_log, bf_run,
                   bf_writes, bf_success_count, bf_fail_count, NotBf>>
    /\ IF bf_file.state # "ok"
       THEN /\ bf_pc' = "returned"
            /\ bf_ret' = <<0, 0, 0>>
            /\ UNCHANGED <<bf_api_url, site_data, video_list, bf_i>>
       ELSE /\ site_data' = bf_file.data
            /\ bf_api_url' = u
            /\ IF Falsy(u)
               THEN /\ bf_pc' = "returned"
                    /\ bf_ret' = <<0, 0, 0>>
                    /\ UNCHANGED <<video_list, bf_i>>
               ELSE /\ video_list' = Get(bf_file.data, "list", <<>>)
                    /\ IF Get(bf_file.data, "list", <<>>) = <<>>
                       THEN /\ bf_pc' = "returned"
                            /\ bf_ret' = <<0, 0, 0>>
                            /\ UNCHANGED bf_i
                       ELSE /\ bf_pc' = "loop"
                            /\ bf_i' = 1
                            /\ UNCHANGED bf_ret

\* One iteration of the loop over video_list.  resp is the upstream's
\* response to the detail request, the same for the same id every time.
BfStep(resp) ==
    /\ bf_pc = "loop"
    /\ ~LoopDone(bf_i, Len(video_list))
    /\ bf_i' = bf_i + 1
    /\ UNCHANGED <<bf_pc, bf_file, bf_prev, bf_prev_written, bf_api_url, site_data,
                   bf_run, bf_writes, bf_ret, NotBf>>
    /\ LET video == video_list[bf_i].d
       IN IF ~video_list[bf_i].isdict \/ NoVodId(video)
          THEN /\ resp = None
               /\ UNCHANGED <<upstream, video_list, bf_success_count,
                              bf_fail_count, bf_log>>
          ELSE IF HasPlayUrl(video)
          THEN /\ resp = None
               /\ bf_success_count' = bf_success_count + 1
               /\ UNCHANGED <<upstream, video_list, bf_fail_count, bf_log>>
          ELSE /\ video["vod_id"] \in DOMAIN upstream => resp = upstream[video["vod_id"]]
               /\ upstream' = [id \in DOMAIN upstream \cup {video["vod_id"]} |->
                                 IF id = video["vod_id"] THEN resp ELSE upstream[id]]
               /\ LET detail == fetch_vod_detail(resp)
                  IN IF Truthy(detail)
                     THEN /\ video_list' = [video_list EXCEPT
                                              ![bf_i].d = MergeDetail(video, detail.val)]
                          /\ bf_success_count' = bf_success_count + 1
                          /\ UNCHANGED bf_fail_count
                     ELSE /\ bf_fail_count' = bf_fail_count + 1
                          /\ UNCHANGED <<video_list, bf_success_count>>
               /\ bf_log' = bf_log
                    \o <<[op |-> "get", i |-> bf_i,
                          url |-> DetailUrl(bf_api_url, video["vod_id"])]>>
                    \o (IF BfSleepAfter(bf_i, Len(video_list))
                        THEN <<[op |-> "sleep", i |-> bf_i,
                                url |-> DetailUrl(bf_api_url, video["vod_id"])]>>
                        ELSE <<>>)

\* After the loop: write site_data (whose list is video_list) and return
\* the counts, or <<0, 0, 0>> when the file cannot be written.
BfSave(saved) ==
    /\ bf_pc = "loop"
    /\ LoopDone(bf_i, Len(video_list))
    /\ bf_pc' = "returned"
    /\ IF saved
       THEN /\ bf_file' = [state |-> "ok", data |-> Put(site_data, "list", video_list)]
            /\ bf_writes' = bf_writes + 1
            /\ bf_ret' = <<bf_success_count, bf_fail_count, Len(video_list)>>
       ELSE /\ bf_ret' = <<0, 0, 0>>
            /\ UNCHANGED <<bf_file, bf_writes>>
    /\ UNCHANGED <<bf_prev, bf_prev_written, upstream, bf_api_url, site_data,
                   video_list, bf_i, bf_success_count, bf_fail_count, bf_log,
                   bf_run, NotBf>>

\* The tool is run again over the same file.
BfRerun ==
    /\ bf_pc = "returned"
    /\ bf_run < MaxRuns
    /\ bf_pc' = "start"
    /\ bf_run' = bf_run + 1
    /\ bf_prev' = bf_file
    /\ bf_prev_written' = (bf_writes > 0)
    /\ bf_api_url' = NoUrl
    /\ site_data' = EmptyDoc
    /\ video_list' = <<>>
    /\ bf_i' = 0
    /\ bf_success_count' = 0
    /\ bf_fail_count' = 0
    /\ bf_log' = <<>>
    /\ bf_writes' = 0
    /\ bf_ret' = <<-1, -1, -1>>
    /\ UNCHANGED <<bf_file, upstream, NotBf>>

BfNext ==
    \/ \E u \in ApiUrls : BfStart(u)
    \/ \E resp \in DetailResponses(Details) : BfStep(resp)
    \/ \E saved \in BOOLEAN : BfSave(saved)
    \/ BfRerun

SpecBackfill == BfInit /\ [][BfNext]_vars

MergeNext ==
    \/ \E u \in {Url([base |-> "u", query |-> FALSE])} : BfStart(u)
    \/ \E resp \in DetailResponses(WideDetails) : BfStep(resp)
    \/ \E saved \in BOOLEAN : BfSave(saved)

SpecMerge == MergeInit /\ [][MergeNext]_vars

----------------------------------------------------------------------------
(* Config Fetcher *)

\* JSON values: objects, arrays and scalars.
JObj(d) == [t |-> "object", obj |-> d, arr |-> <<>>]
JArr(a) == [t |-> "array", obj |-> EmptyDoc, arr |-> a]
JScalar(t) == [t |-> t, obj |-> EmptyDoc, arr |-> <<>>]
JNull == JScalar("null")

\* The bodies a config endpoint answers with, when they are JSON: objects
\* with and without sites and lives, arrays, scalars.
ConfigBodies ==
    {JObj(si @@ li) : si \in Opt("sites", {<<>>, <<1>>}), li \in Opt("lives", {<<>>, <<1>>})}
    \cup {JArr(<<>>), JArr(<<1>>)}
    \cup {JScalar(t) : t \in {"null", "number", "string"}}

\* The responses: a request error or a non-2xx status (RequestException), a
\* body that is not JSON, or a JSON body.
NoResp == [kind |-> "none", body |-> JNull]
ConfigResponses ==
    {[kind |-> k, body |-> JNull] : k \in {"error", "notjson"}}
    \cup {[kind |-> "json", body |-> b] : b \in ConfigBodies}

\* A line of api-key.txt: its text once stripped, and whether blanks
\* surround it.
KeyLines == [padded : BOOLEAN, text : {"", "a", "b"}]
KeyFiles ==
    {[state |-> st, lines |-> <<>>] : st \in {"missing", "unreadable"}}
    \cup {[state |-> "ok", lines |-> ls] : ls \in SeqsUpTo(KeyLines, MaxLines)}

\* `[line.strip() for line in f.readlines() if line.strip()]`
NonBlank(lines) ==
    LET kept == SelectSeq(lines, LAMBDA l : l.text # "")
    IN [i \in DOMAIN kept |-> kept[i].text]

\* The root config file before the run.
OldConfigs ==
    {[state |-> "missing", data |-> JNull], [state |-> "ok", data |-> JObj([sites |-> <<2>>])]}

\* parse_tvbox_api's return value: the parsed body when it is a dict or a
\* list, else None.
parse_tvbox_api(resp) ==
    IF resp.kind = "json" /\ resp.body.t \in {"object", "array"}
    THEN [some |-> TRUE, val |-> resp.body]
    ELSE [some |-> FALSE, val |-> JNull]

\* main's `if config:` - None, {} and [] are falsy.
ConfigTruthy(c) ==
    /\ c.some
    /\ (c.val.t = "object" => DOMAIN c.val.obj # {})
    /\ (c.val.t = "array" => c.val.arr # <<>>)

CfgInit ==
    /\ AggIdle /\ SanIdle /\ BfIdle /\ EnIdle
    /\ cfg_pc = "start"
    /\ cfg_keyfile \in KeyFiles
    /\ cfg_file \in OldConfigs
    /\ cfg_old = cfg_file
    /\ cfg_url = ""
    /\ cfg_resp = NoResp
    /\ config = [some |-> FALSE, val |-> JNull]
    /\ cfg_saved = "none"
    /\ cfg_exit = -1

\* main up to the request: api-key.txt must exist, be readable and hold a
\* non-blank line; the first one is the URL.
CfgReadKey ==
    /\ cfg_pc = "start"
    /\ IF cfg_keyfile.state # "ok" \/ NonBlank(cfg_keyfile.lines) = <<>>
       THEN /\ cfg_pc' = "exit"
            /\ cfg_exit' = 1
            /\ UNCHANGED cfg_url
       ELSE /\ cfg_pc' = "fetch"
            /\ cfg_url' = NonBlank(cfg_keyfile.lines)[1]
            /\ UNCHANGED cfg_exit
    /\ UNCHANGED <<cfg_keyfile, cfg_file, cfg_old, cfg_resp, config, cfg_saved, NotCfg>>

\* config = parse_tvbox_api(api_url)
CfgParse(resp) ==
    /\ cfg_pc = "fetch"
    /\ cfg_pc' = "parsed"
    /\ cfg_resp' = resp
    /\ config' = parse_tvbox_api(resp)
    /\ UNCHANGED <<cfg_keyfile, cfg_file, cfg_old, cfg_url, cfg_saved, cfg_exit, NotCfg>>

\* main after parse_tvbox_api: `if config:` save and exit 0, exit 1 when
\* the save fails or config is falsy.
CfgFinish(saved) ==
    /\ cfg_pc = "parsed"
    /\ cfg_pc' = "exit"
    /\ IF ConfigTruthy(config)
       THEN IF saved
            THEN /\ cfg_file' = [state |-> "ok", data |-> config.val]
                 /\ cfg_saved' = "ok"
                 /\ cfg_exit' = 0
            ELSE /\ cfg_saved' = "fail"
                 /\ cfg_exit' = 1
                 /\ UNCHANGED cfg_file
       ELSE /\ cfg_exit' = 1
            /\ UNCHANGED <<cfg_file, cfg_saved>>
    /\ UNCHANGED <<cfg_keyfile, cfg_old, cfg_url, cfg_resp, config, NotCfg>>

CfgNext ==
    \/ CfgReadKey
    \/ \E resp \in ConfigResponses : CfgParse(resp)
    \/ \E saved \in BOOLEAN : CfgFinish(saved)

SpecCfg == CfgInit /\ [][CfgNext]_vars

----------------------------------------------------------------------------
(* Site Enumerator *)

\* Site names, as strings of characters.
SiteNames == {<<"A">>, <<"A", "/">>}

\* The entries of `sites`: something that is no dict, or a dict whose name
\* and api may be absent and whose api may be empty.
SiteEntries ==
    {NonDict} \cup
    {Dict(nm @@ ap) : nm \in Opt("name", SiteNames), ap \in Opt("api", {"", "u"})}

\* The root config: missing, unreadable, without sites, or with a list.
EnConfigs ==
    {[state |-> st, data |-> EmptyDoc] : st \in {"missing", "bad", "ok"}}
    \cup {[state |-> "ok", data |-> [sites |-> ls]] : ls \in SeqsUpTo(SiteEntries, MaxSites)}

\* f'site_{i}'
Digits == <<"1", "2", "3", "4", "5", "6", "7", "8", "9">>
DefaultName(i) == <<"s", "i", "t", "e", "_", Digits[i]>>

\* fetch_site_config's return value: None on a request error or a body that
\* is not JSON, else the parsed body (which may be falsy, as {} is).
SiteResults == {None, Some(EmptyDoc), Some([code |-> 1])}

\* What one entry adds to <<success_count, fail_count>>, given what
\* fetch_site_config returned and whether save_site_config wrote the file.
SiteCounts_nosave(entry, result, saved) ==
    IF ~entry.isdict \/ Get(entry.d, "api", "") = "" THEN <<0, 1>>
    ELSE IF Truthy(result) THEN (IF saved THEN <<1, 0>> ELSE <<0, 0>>)
    ELSE <<0, 1>>
SiteCounts(entry, result, saved) ==
    IF ~entry.isdict \/ Get(entry.d, "api", "") = "" THEN <<0, 1>>
    ELSE IF Truthy(result) THEN (IF saved THEN <<1, 0>> ELSE <<0, 1>>)
    ELSE <<0, 1>>

\* main's exit status
EnExitStatus(success) == IF success > 0 THEN 0 ELSE 1

EnInit ==
    /\ AggIdle /\ SanIdle /\ BfIdle /\ CfgIdle
    /\ en_pc = "start"
    /\ en_config \in EnConfigs
    /\ sites = <<>>
    /\ en_i = 0
    /\ en_success_count = 0
    /\ en_fail_count = 0
    /\ en_log = <<>>
    /\ en_files = {}
    /\ en_ret = <<-1, -1, -1>>
    /\ en_exit = -1

\* parse_all_sites up to the loop, with its early returns.
EnStart ==
    /\ en_pc = "start"
    /\ IF en_config.state # "ok" \/ Get(en_config.data, "sites", <<>>) = <<>>
       THEN /\ en_pc' = "returned"
            /\ en_ret' = <<0, 0, 0>>
            /\ sites' = IF en_config.state = "ok"
                        THEN Get(en_config.data, "sites", <<>>) ELSE <<>>
            /\ UNCHANGED en_i
       ELSE /\ en_pc' = "loop"
            /\ sites' = en_config.data["sites"]
            /\ en_i' = 1
            /\ UNCHANGED en_ret
    /\ UNCHANGED <<en_config, en_success_count, en_fail_count, en_log, en_files,
                   en_exit, NotEn>>

\* One iteration of the loop over sites.  result is what fetch_site_config
\* returns, saved whether save_site_config could write the file.
EnStep(result, saved) ==
    /\ en_pc = "loop"
    /\ en_i <= Len(sites)
    /\ en_i' = en_i + 1
    /\ LET entry == sites[en_i]
           counts == SiteCounts(entry, result, saved)
           requested == entry.isdict /\ Get(entry.d, "api", "") # ""
           site_name == Get(entry.d, "name", DefaultName(en_i))
       IN /\ en_success_count' = en_success_count + counts[1]
          /\ en_fail_count' = en_fail_count + counts[2]
          /\ ~requested => (result = None /\ saved = FALSE)
          /\ ~Truthy(result) => saved = FALSE
          /\ en_files' = IF requested /\ Truthy(result) /\ saved
                         THEN en_files \cup {sanitize_filename(site_name)}
                         ELSE en_files
          /\ en_log' = en_log
               \o <<[op |-> "visit", i |-> en_i]>>
               \o (IF requested THEN <<[op |-> "get", i |-> en_i]>> ELSE <<>>)
               \o (IF requested /\ en_i < Len(sites)
                   THEN <<[op |-> "sleep", i |-> en_i]>> ELSE <<>>)
    /\ UNCHANGED <<en_pc, en_config, sites, en_ret, en_exit, NotEn>>

\* return (success_count, fail_count, len(sites))
EnReturn ==
    /\ en_pc = "loop"
    /\ en_i > Len(sites)
    /\ en_pc' = "returned"
    /\ en_ret' = <<en_success_count, en_fail_count, Len(sites)>>
    /\ UNCHANGED <<en_config, sites, en_i, en_success_count, en_fail_count,
                   en_log, en_files, en_exit, NotEn>>

\* main after parse_all_sites: exit 0 when success > 0, else 1.
EnMain ==
    /\ en_pc = "returned"
    /\ en_pc' = "exit"
    /\ en_exit' = EnExitStatus(en_ret[1])
    /\ UNCHANGED <<en_config, sites, en_i, en_success_count, en_fail_count,
                   en_log, en_files, en_ret, NotEn>>

EnNext ==
    \/ EnStart
    \/ \E result \in SiteResults : \E saved \in BOOLEAN : EnStep(result, saved)
    \/ EnReturn
    \/ EnMain

SpecEnum == EnInit /\ [][EnNext]_vars

----------------------------------------------------------------------------
(* Page Aggregator: properties *)

\* The lists of the pages in rs, one after the other.
RECURSIVE Concat(_)
Concat(ls) == IF ls = <<>> THEN <<>> ELSE Head(ls) \o Concat(Tail(ls))

\* The list a page carries: none when the request failed.
ListOf(r) == IF r.some THEN Get(r.val, "list", <<>>) ELSE <<>>

\* The requests of a log, in order.
Gets(log) == SelectSeq(log, LAMBDA e : e.op = "get")

\* C1: a first page whose pagecount is <= 1 or absent, with a resolved
\* endpoint URL, is returned equal to the input document, key for key, and
\* no page request is issued.
C1_FastPath ==
    (/\ agg_pc # "start"
     /\ first_page_data \in FirstPages
     /\ ~Falsy(api_url)
     /\ Get(first_page_data, "pagecount", 1) <= 1)
    => /\ agg_pc \in {"done", "exit"}
       /\ complete_data = Some(first_page_data)
       /\ agg_log = <<>>
       /\ agg_resp = <<>>
       /\ agg_file.data = first_page_data

\* C1 witness: a fast-path run that returned a first page without pagecount
\* and carrying page = 2, with records.
C1_Witness ==
    /\ agg_pc = "done"
    /\ ~Falsy(api_url)
    /\ "pagecount" \notin DOMAIN first_page_data
    /\ Get(first_page_data, "page", 0) = 2
    /\ Get(first_page_data, "list", <<>>) = <<2, 1>>
    /\ complete_data = Some(first_page_data)

\* C2: with pagecount = N > 1 and every fetch of pages 2..N successful, the
\* output list is the first page's list followed by the lists of pages
\* 2..N in page order, duplicates kept; total is its length, page is 1 and
\* every other field is the first page's.
C2_Merge ==
    (/\ agg_pc = "done"
     /\ Get(first_page_data, "pagecount", 1) > 1
     /\ \A i \in DOMAIN agg_resp : agg_resp[i].some)
    => LET out == complete_data.val
           N == first_page_data["pagecount"]
       IN /\ complete_data.some
          /\ Len(agg_resp) = N - 1
          /\ DOMAIN out = DOMAIN first_page_data \cup {"list", "page", "total"}
          /\ out["list"] = Get(first_page_data, "list", <<>>)
                           \o Concat([i \in 1..(N - 1) |->
                                        Get(agg_resp[i].val, "list", <<>>)])
          /\ out["total"] = Len(out["list"])
          /\ out["page"] = 1
          /\ \A k \in DOMAIN first_page_data \ {"list", "page", "total"} :
                out[k] = first_page_data[k]

\* C2 witness: three pages, all fetched, page 2 repeating a record of the
\* first page and page 3 holding two records in descending id order.
C2_Witness ==
    /\ agg_pc = "done"
    /\ Get(first_page_data, "pagecount", 1) = 3
    /\ Get(first_page_data, "list", <<>>) = <<1>>
    /\ agg_resp = <<Some([list |-> <<1>>]), Some([list |-> <<2, 1>>])>>
    /\ complete_data.val["list"] = <<1, 1, 2, 1>>
    /\ complete_data.val["total"] = 4

\* C3: whatever pages fail, the run goes on: every page 2..N is requested,
\* the output list is the first page's list followed by the lists of the
\* pages that were fetched, in page order, and total is its length.
C3_PartialFailure ==
    /\ (agg_pc = "failed" => agg_log = <<>>)
    /\ (agg_pc = "done" /\ Get(first_page_data, "pagecount", 1) > 1)
       => LET out == complete_data.val
              N == first_page_data["pagecount"]
          IN /\ complete_data.some
             /\ Len(agg_resp) = N - 1
             /\ [i \in 1..Len(Gets(agg_log)) |-> Gets(agg_log)[i].url.pg]
                  = [i \in 1..(N - 1) |-> i + 1]
             /\ out["list"] = Get(first_page_data, "list", <<>>)
                              \o Concat([i \in 1..(N - 1) |-> ListOf(agg_resp[i])])
             /\ out["total"] = Len(out["list"])

\* C3 witness: page 2 of 3 fails, page 3 is fetched and its records are in
\* the output.
C3_Witness ==
    /\ agg_pc = "done"
    /\ Get(first_page_data, "pagecount", 1) = 3
    /\ Get(first_page_data, "list", <<>>) = <<1>>
    /\ agg_resp = <<None, Some([list |-> <<2>>])>>
    /\ complete_data.val["list"] = <<1, 2>>
    /\ complete_data.val["total"] = 2

\* The schedule of a run over N pages once pages 2..upto have been
\* requested: a get for each page in ascending order, each but page N
\* followed by a sleep.
RECURSIVE Schedule(_, _, _)
Schedule(u, N, upto) ==
    IF upto < 2 THEN <<>>
    ELSE Schedule(u, N, upto - 1)
         \o <<[op |-> "get", url |-> PageUrl(u, upto)]>>
         \o (IF upto = N THEN <<>> ELSE <<[op |-> "sleep", url |-> PageUrl(u, upto)]>>)

\* C10: for pagecount = N > 1 the run requests pages 2, 3, ..., N once each
\* in ascending order, never page 1, whether or not requests fail, and
\* sleeps after the request for page p exactly when p < N.
C10_Schedule ==
    /\ (agg_pc = "loop" =>
          /\ page \in 2..(first_page_data["pagecount"] + 1)
          /\ agg_log = Schedule(api_url, first_page_data["pagecount"], page - 1))
    /\ ((/\ agg_pc \in {"done", "exit"}
         /\ ~Falsy(api_url)
         /\ Get(first_page_data, "pagecount", 1) > 1) =>
          agg_log = Schedule(api_url, first_page_data["pagecount"],
                             first_page_data["pagecount"]))
    /\ \A i \in DOMAIN agg_log : agg_log[i].url.pg # 1

\* C10 witness: a finished run over three pages whose first request failed.
C10_Witness ==
    /\ agg_pc = "done"
    /\ Get(first_page_data, "pagecount", 1) = 3
    /\ ~agg_resp[1].some
    /\ Len(agg_log) = 3
    /\ agg_log[2].op = "sleep"
    /\ agg_log[3] = [op |-> "get", url |-> PageUrl(api_url, 3)]

\* r copies of the sequence s, one after the other.
RECURSIVE Copies(_, _)
Copies(s, r) == IF r = 0 THEN <<>> ELSE s \o Copies(s, r - 1)

\* The document the first run read from the site file.
AggOrig == IF agg_runs = <<>> THEN first_page_data ELSE agg_runs[1].file

\* C13: the file a successful aggregation writes keeps pagecount = N > 1
\* and holds the merged list, so a run over that file requests pages 2..N
\* again and appends their records once more; with a fixed upstream whose
\* fetches all succeed, the r-th run returns the first-page list followed
\* by r copies of the concatenation of pages 2..N, with `total` its length.
C13_Rerun ==
    LET N == Get(AggOrig, "pagecount", 1)
        r == Len(agg_runs) + 1
        first == Get(AggOrig, "list", <<>>)
        pages == Concat([k \in DOMAIN agg_resp |-> ListOf(agg_resp[k])])
    IN ((/\ agg_pc \in {"done", "exit"}
         /\ complete_data.some
         /\ N > 1
         /\ \A k \in DOMAIN agg_resp : agg_resp[k].some)
        => /\ Get(first_page_data, "pagecount", 1) = N
           /\ Get(first_page_data, "list", <<>>) = first \o Copies(pages, r - 1)
           /\ [k \in DOMAIN Gets(agg_log) |-> Gets(agg_log)[k].url]
                = [k \in 1..(N - 1) |-> PageUrl(api_url, k + 1)]
           /\ Len(agg_resp) = N - 1
           /\ complete_data.val["pagecount"] = N
           /\ complete_data.val["list"] = first \o Copies(pages, r)
           /\ complete_data.val["total"] = Len(first) + r * Len(pages)
           /\ (agg_exit = 0 => agg_file = [state |-> "ok", data |-> complete_data.val]))

\* C13 witness: the second run over a two-page site has saved a list that
\* holds the records of page 2 twice after the first-page list.
C13_Witness ==
    /\ agg_pc = "exit"
    /\ agg_exit = 0
    /\ Len(agg_runs) = 1
    /\ Get(AggOrig, "pagecount", 1) = 2
    /\ agg_resp[1].some
    /\ ListOf(agg_resp[1]) # <<>>
    /\ agg_file.data["list"]
         = Get(AggOrig, "list", <<>>) \o ListOf(agg_resp[1]) \o ListOf(agg_resp[1])
    /\ agg_file.data["total"] = Len(Get(AggOrig, "list", <<>>)) + 2 * Len(ListOf(agg_resp[1]))

----------------------------------------------------------------------------
(* sanitize_filename: properties *)

EndChars == Whitespace \cup {"."}

\* out is a window lo..hi of name with every invalid character made "_".
KeptInPlace(name, out) ==
    \E lo \in 1..(Len(name) + 1) : \E hi \in 0..Len(name) :
        /\ Len(out) = hi - lo + 1
        /\ \A i \in lo..hi :
              out[i - lo + 1] = IF name[i] \in InvalidSet THEN "_" ELSE name[i]

\* C4: the result is non-empty, holds none of the nine invalid characters,
\* neither starts nor ends with "." or whitespace, and keeps in place every
\* character that is neither invalid nor stripped from the ends.
C4_Shape ==
    san_pc = "done" =>
        /\ san_out # <<>>
        /\ \A i \in DOMAIN san_out : san_out[i] \notin InvalidSet
        /\ san_out[1] \notin EndChars
        /\ san_out[Len(san_out)] \notin EndChars
        /\ (san_out = Placeholder \/ KeptInPlace(san_name, san_out))

\* C5 as stated: a non-empty name made up only of invalid characters gives
\* the placeholder.
C5_Placeholder ==
    (/\ san_pc = "done"
     /\ san_name # <<>>
     /\ \A i \in DOMAIN san_name : san_name[i] \in InvalidSet)
    => san_out = Placeholder

\* C5 as amended: a non-empty name made up only of invalid characters gives
\* as many underscores as the name has characters, never the placeholder.
C5_Underscores ==
    (/\ san_pc = "done"
     /\ san_name # <<>>
     /\ \A i \in DOMAIN san_name : san_name[i] \in InvalidSet)
    => /\ san_out = [i \in 1..Len(san_name) |-> "_"]
       /\ san_out # Placeholder

\* C5 witness: the name made up of all nine invalid characters, sanitized.
C5_Witness ==
    /\ san_pc = "done"
    /\ san_name = InvalidChars
    /\ san_out = <<"_", "_", "_", "_", "_", "_", "_", "_", "_">>

----------------------------------------------------------------------------
(* Play-URL Backfill: properties *)

\* The list of a site file.
FileList(f) == Get(f.data, "list", <<>>)

\* The current run follows a run that wrote the file it reads.
SecondRun == bf_run >= 2 /\ bf_prev_written

\* C6 as stated: with a fixed upstream, a run over the file written by the
\* run before issues no detail request and leaves `list` as it was written.
C6_Idempotent ==
    SecondRun =>
        /\ \A n \in DOMAIN bf_log : bf_log[n].op # "get"
        /\ FileList(bf_file) = FileList(bf_prev)
        /\ (bf_pc = "loop" => video_list = FileList(bf_prev))

\* C6 as amended: such a run requests details only for the records the run
\* before left without a non-empty vod_play_url (none when there is no
\* such record), and leaves `list` as it was written.
C6_Rerun ==
    SecondRun =>
        /\ \A n \in DOMAIN bf_log :
              LET rec == FileList(bf_prev)[bf_log[n].i]
              IN /\ rec.isdict
                 /\ Get(rec.d, "vod_id", 0) # 0
                 /\ Get(rec.d, "vod_play_url", "") = ""
        /\ FileList(bf_file) = FileList(bf_prev)
        /\ (bf_pc = "loop" => video_list = FileList(bf_prev))
        /\ (bf_pc = "returned" /\ bf_writes = 1 =>
              \A i \in DOMAIN video_list :
                 LET rec == video_list[i]
                 IN (\E n \in DOMAIN bf_log : bf_log[n].op = "get" /\ bf_log[n].i = i)
                    <=> (/\ rec.isdict
                         /\ Get(rec.d, "vod_id", 0) # 0
                         /\ Get(rec.d, "vod_play_url", "") = ""))

\* C6 witness: the second run over a file of two records, the first
\* populated by the first run and not requested again, the second failed
\* in the first run and requested again.
C6_Witness ==
    /\ SecondRun
    /\ bf_pc = "returned"
    /\ bf_writes = 1
    /\ Len(video_list) = 2
    /\ Get(video_list[1].d, "vod_play_url", "") = "y"
    /\ Len(bf_log) = 1
    /\ bf_log[1].op = "get" /\ bf_log[1].i = 2
    /\ bf_ret = <<1, 1, 2>>

\* C7: a whitelisted field that held a non-empty value on the record before
\* the merge holds a non-empty value after it, whether the detail lacks the
\* key or carries it with an empty value.
C7_NeverCleared ==
    bf_pc \in {"loop", "returned"} =>
        \A i \in DOMAIN video_list : \A k \in Whitelist :
            Get(FileList(bf_prev)[i].d, k, "") # ""
            => Get(video_list[i].d, k, "") # ""

\* The positions of the detail requests in the log of the run.
BfGets == {n \in DOMAIN bf_log : bf_log[n].op = "get"}

\* A delay lies between every two detail requests of the run.
DelayBetween ==
    \A m \in BfGets : \A n \in BfGets :
        m < n => \E k \in (m + 1)..(n - 1) : bf_log[k].op = "sleep"

\* C11: a delay lies between every two consecutive detail requests and none
\* follows the last detail request of the run, also when every record
\* after it in the list is skipped.
C11_NoTrailingDelay ==
    /\ DelayBetween
    /\ (bf_pc = "returned" /\ bf_log # <<>> => bf_log[Len(bf_log)].op = "get")

\* The run met one of the early returns: the file is missing or
\* unreadable, the endpoint URL is missing, or the list is missing or empty.
NothingToDo ==
    \/ bf_prev.state # "ok"
    \/ Falsy(bf_api_url)
    \/ FileList(bf_prev) = <<>>

\* C12: a run writes the site file at most once and only after the last
\* entry of the list has been processed; until then, however many detail
\* requests were made, the file on disk is what it was when the run
\* started; a run with a missing file, endpoint URL or non-empty list
\* never writes it.
C12_SingleWrite ==
    /\ bf_writes <= 1
    /\ (bf_pc \in {"start", "loop"} => bf_writes = 0)
    /\ (bf_writes = 0 => bf_file = bf_prev)
    /\ (bf_writes = 1 =>
          /\ bf_pc = "returned"
          /\ bf_i = Len(video_list) + 1
          /\ ~NothingToDo
          /\ bf_file = [state |-> "ok", data |-> Put(bf_prev.data, "list", video_list)])
    /\ (bf_pc = "returned" /\ NothingToDo =>
          /\ bf_writes = 0
          /\ bf_log = <<>>
          /\ bf_ret = <<0, 0, 0>>)

\* C12 witness: a run over two entries made two detail requests and then
\* wrote the file once, with a list that differs from the one it read.
C12_Witness ==
    /\ bf_pc = "returned"
    /\ bf_writes = 1
    /\ Len(video_list) = 2
    /\ Cardinality(BfGets) = 2
    /\ bf_file # bf_prev

----------------------------------------------------------------------------
(* Config Fetcher: properties *)

\* C8: once a response was fetched, the root config file is overwritten
\* with the parsed body and the exit status is 0 exactly when the body is
\* JSON and an object or an array, an empty one included; otherwise the file
\* is left as it was and the exit status is 1.  (Runs in which writing the
\* file fails are left aside.)
C8_AcceptReject ==
    (cfg_pc = "exit" /\ cfg_resp.kind # "none" /\ cfg_saved # "fail") =>
        IF cfg_resp.kind = "json" /\ cfg_resp.body.t \in {"object", "array"}
        THEN cfg_file = [state |-> "ok", data |-> cfg_resp.body] /\ cfg_exit = 0
        ELSE cfg_file = cfg_old /\ cfg_exit = 1

----------------------------------------------------------------------------
(* Site Enumerator: properties *)

\* The entries of a log with operation op, by index, in order.
Indexes(log, op) ==
    LET sel == SelectSeq(log, LAMBDA e : e.op = op)
    IN [n \in DOMAIN sel |-> sel[n].i]

\* The indexes of the entries of ss that carry an API URL, in order.
RECURSIVE WithApi(_, _)
WithApi(ss, n) ==
    IF n > Len(ss) THEN <<>>
    ELSE (IF ss[n].isdict /\ "api" \in DOMAIN ss[n].d /\ ss[n].d["api"] # ""
          THEN <<n>> ELSE <<>>) \o WithApi(ss, n + 1)

====
